---------------------------- MODULE Spec2Model ----------------------------
(***************************************************************************)
(* Cross-platform track resolution of songmatch: PlatformMatcher           *)
(* (platform_matcher.py, entry point match_track_id) and                   *)
(* MusicServiceMatcher (songmatch.py, entry point match_track).            *)
(***************************************************************************)
EXTENDS Integers, Sequences, FiniteSets, TLC

(***************************************************************************)
(* Bounds of the model.                                                    *)
(***************************************************************************)
\* longest list of candidates a metadata search answers with
MaxCands == 2
\* the longest string the similarity is computed on in SpecSim
MaxLen == 2

(***************************************************************************)
(* Values.                                                                 *)
(***************************************************************************)
\* Python's None, for the optional string fields
None == "None"
\* None for the optional fields that hold a tuple or a record
Nil == << >>

Matchers == {"PlatformMatcher", "MusicServiceMatcher"}
Platforms == {"spotify", "apple_music"}

\* the thread of the program, and a second thread that SpecPair runs next to it
Main == "main"
Other == "other"
Procs == {Main, Other}

(***************************************************************************)
(* Strings are sequences of characters.                                    *)
(***************************************************************************)
Empty == << >>
abcde == <<"a", "b", "c", "d", "e">>
Abcde == <<"A", "b", "c", "d", "e">>
abcdx == <<"a", "b", "c", "d", "x">>
abcxy == <<"a", "b", "c", "x", "y">>
abxyz == <<"a", "b", "x", "y", "z">>
vwxyz == <<"v", "w", "x", "y", "z">>

LowerChar(c) ==
    CASE c = "A" -> "a"
      [] c = "B" -> "b"
      [] OTHER -> c

\* the lower case of one character: "U0130" (capital I with dot above) is the
\* character whose lower case is two characters, i and the combining dot
LowerSeq(c) == IF c = "U0130" THEN <<"i", "U0307">> ELSE <<LowerChar(c)>>

\* str.lower()
RECURSIVE Lower(_)
Lower(s) == IF s = << >> THEN << >> ELSE LowerSeq(Head(s)) \o Lower(Tail(s))

\* an argument that is not a str (a number of the JSON payload): .lower() raises
NonString == <<"not a str">>

Min(a, b) == IF a < b THEN a ELSE b
Max(a, b) == IF a > b THEN a ELSE b

(***************************************************************************)
(* Scores are exact fractions [n, d] with d > 0, kept in lowest terms.     *)
(***************************************************************************)
RECURSIVE GCD(_, _)
GCD(a, b) == IF b = 0 THEN a ELSE GCD(b, a % b)

Frac(n, d) ==
    LET g == GCD(n, d)
    IN  IF n = 0 THEN [n |-> 0, d |-> 1] ELSE [n |-> n \div g, d |-> d \div g]

FracAdd(x, y) == Frac(x.n * y.d + y.n * x.d, x.d * y.d)
FracHalf(x) == Frac(x.n, 2 * x.d)
FracGT(x, y) == x.n * y.d > y.n * x.d
Zero == [n |-> 0, d |-> 1]
One == [n |-> 1, d |-> 1]

RECURSIVE Levenshtein(_, _)
Levenshtein(s, t) ==
    IF Len(s) = 0 THEN Len(t)
    ELSE IF Len(t) = 0 THEN Len(s)
    ELSE IF Head(s) = Head(t) THEN Levenshtein(Tail(s), Tail(t))
    ELSE 1 + Min(Levenshtein(Tail(s), t),
                 Min(Levenshtein(s, Tail(t)), Levenshtein(Tail(s), Tail(t))))

\* the similarity normalised by the length of the first string only
CalculateSimilarityByFirst(str1, str2) ==
    LET s1 == Lower(str1)
        s2 == Lower(str2)
        distance == Levenshtein(s1, s2)
        max_len == Len(s1)
    IN  IF str1 = NonString \/ str2 = NonString THEN Zero
        ELSE IF max_len = 0 THEN Zero ELSE Frac(max_len - distance, max_len)

\* the similarity normalised by the lengths before lower()
CalculateSimilarityByRawLength(str1, str2) ==
    LET s1 == Lower(str1)
        s2 == Lower(str2)
        distance == Levenshtein(s1, s2)
        max_len == Max(Len(str1), Len(str2))
    IN  IF str1 = NonString \/ str2 = NonString THEN Zero
        ELSE IF max_len = 0 THEN Zero ELSE Frac(max_len - distance, max_len)

\* PlatformMatcher._calculate_similarity; an exception inside it returns 0.0
CalculateSimilarity(str1, str2) ==
    LET s1 == Lower(str1)
        s2 == Lower(str2)
        distance == Levenshtein(s1, s2)
        max_len == Max(Len(s1), Len(s2))
    IN  IF str1 = NonString \/ str2 = NonString THEN Zero
        ELSE IF max_len = 0 THEN Zero ELSE Frac(max_len - distance, max_len)

(***************************************************************************)
(* jellyfish.jaro_winkler, as MusicServiceMatcher._find_best_match calls   *)
(* it: greedy matching inside the search range, half the out-of-order      *)
(* matches as transpositions, and the prefix boost above 0.7.              *)
(***************************************************************************)
\* the first unmatched position of s2 in range of i that holds s1[i]; 0 if none
JaroPick(s1, s2, i, range, flags2) ==
    LET low == Max(1, i - range)
        hi == Min(i + range, Len(s2))
        js == {j \in low..hi : j \notin flags2 /\ s2[j] = s1[i]}
    IN  IF js = {} THEN 0 ELSE CHOOSE j \in js : \A k \in js : j <= k

RECURSIVE JaroFlags(_, _, _, _, _, _)
JaroFlags(s1, s2, range, i, flags1, flags2) ==
    IF i > Len(s1) THEN <<flags1, flags2>>
    ELSE LET j == JaroPick(s1, s2, i, range, flags2)
         IN  IF j = 0 THEN JaroFlags(s1, s2, range, i + 1, flags1, flags2)
             ELSE JaroFlags(s1, s2, range, i + 1, flags1 \cup {i}, flags2 \cup {j})

\* the characters of s at the flagged positions, in order
RECURSIVE Flagged(_, _, _)
Flagged(s, flags, i) ==
    IF i > Len(s) THEN << >>
    ELSE IF i \in flags THEN <<s[i]>> \o Flagged(s, flags, i + 1)
    ELSE Flagged(s, flags, i + 1)

RECURSIVE CommonPrefix(_, _, _, _)
CommonPrefix(s1, s2, i, j) ==
    IF i < j /\ s1[i + 1] = s2[i + 1] THEN CommonPrefix(s1, s2, i + 1, j) ELSE i

JaroWinkler(s1, s2) ==
    IF Len(s1) = 0 \/ Len(s2) = 0 THEN Zero
    ELSE
    LET l1 == Len(s1)
        l2 == Len(s2)
        half == (Max(l1, l2) \div 2) - 1
        search_range == IF half < 0 THEN 0 ELSE half
        flags == JaroFlags(s1, s2, search_range, 1, {}, {})
        common_chars == Cardinality(flags[1])
        m1 == Flagged(s1, flags[1], 1)
        m2 == Flagged(s2, flags[2], 1)
        trans_count == Cardinality({k \in 1..common_chars : m1[k] # m2[k]}) \div 2
        weight == Frac(common_chars * common_chars * l2 + common_chars * common_chars * l1
                         + (common_chars - trans_count) * l1 * l2,
                       3 * l1 * l2 * common_chars)
        i == CommonPrefix(s1, s2, 0, Min(Min(l1, l2), 4))
    IN  IF common_chars = 0 THEN Zero
        ELSE IF FracGT(weight, [n |-> 7, d |-> 10]) /\ i > 0
             THEN FracAdd(weight, Frac(i * (weight.d - weight.n), 10 * weight.d))
             ELSE weight

(***************************************************************************)
(* The texts the platforms answer with, and the similarity of each pair,   *)
(* computed once.                                                          *)
(***************************************************************************)
Texts == {Empty, abcde, Abcde, abcdx, abcxy, abxyz, vwxyz}

\* (f @@ << >> is f, with every value computed)
LevenshteinTable ==
    [pair \in Texts \X Texts |-> CalculateSimilarity(pair[1], pair[2])] @@ << >>
JaroWinklerTable ==
    [pair \in Texts \X Texts |-> JaroWinkler(Lower(pair[1]), Lower(pair[2]))] @@ << >>

\* the similarity each matcher scores a pair of texts with:
\* PlatformMatcher by _calculate_similarity, MusicServiceMatcher by jaro_winkler
Similarity(m, a, b) ==
    IF m = "PlatformMatcher" THEN LevenshteinTable[<<a, b>>] ELSE JaroWinklerTable[<<a, b>>]

(***************************************************************************)
(* Optional values: Nil, or Some(v).                                       *)
(***************************************************************************)
Some(v) == <<v>>
Get(o) == o[1]

(***************************************************************************)
(* Identifiers, cache keys and share URLs.  A URL is the sequence of its   *)
(* parts: scheme, host, then the path segments; a query "?i=<id>" is the   *)
(* two parts "?i=" and the id.                                             *)
(***************************************************************************)
SourceIds == {"101"}
TargetIds == {"201", "202"}
DigitIds == SourceIds \cup TargetIds \cup {"900"}
AlnumIds == DigitIds \cup {"6rqhFgbb"}
Words == {"us", "gb"}

\* cache_key = f"{source_platform}:{source_id}"
CacheKey(source_platform, source_id) == <<source_platform, source_id>>
Keys == {CacheKey(pl, id) : pl \in Platforms, id \in SourceIds}

\* target_platform = "apple_music" if source_platform == "spotify" else "spotify"
TargetPlatform(source_platform) ==
    IF source_platform = "spotify" THEN "apple_music" ELSE "spotify"

Urls ==
    { <<"https", "open.spotify.com", "track", "101">>,
      <<"https", "music.apple.com", "us", "song", "slug", "101">>,
      <<"https", "music.apple.com", "us", "song", "101">>,
      <<"https", "music.apple.com", "us", "album", "slug", "900", "?i=", "101">>,
      <<"https", "example.com", "track", "101">> }

Part(url, i) == IF i <= Len(url) THEN url[i] ELSE None

\* SPOTIFY_URL_PATTERN
SpotifyMatch(url) ==
    /\ Part(url, 1) \in {"http", "https"}
    /\ Part(url, 2) \in {"open.spotify.com", "spotify.com"}
    /\ Part(url, 3) = "track"
    /\ Part(url, 4) \in AlnumIds

AppleHead(url, kind) ==
    /\ Part(url, 1) \in {"http", "https"}
    /\ Part(url, 2) = "music.apple.com"
    /\ Part(url, 3) \in Words
    /\ Part(url, 4) = kind
    /\ Len(url) >= 5
    /\ Part(url, 5) \notin {"?i="}

\* APPLE_MUSIC_URL_PATTERNS, in order: the group each pattern captures, or Nil
ApplePattern(url, k) ==
    CASE k = 1 ->
           IF /\ AppleHead(url, "album")
              /\ Part(url, 6) \in DigitIds
              /\ Part(url, 7) = "?i="
              /\ Part(url, 8) \in DigitIds
           THEN Some(url[8]) ELSE Nil
      [] k = 2 ->
           IF AppleHead(url, "album") /\ Part(url, 6) \in DigitIds
           THEN Some(url[6]) ELSE Nil
      [] k = 3 ->
           IF AppleHead(url, "song") /\ Part(url, 6) \in DigitIds
           THEN Some(url[6]) ELSE Nil
      [] OTHER ->
           IF AppleHead(url, "music-video") /\ Part(url, 6) \in DigitIds
           THEN Some(url[6]) ELSE Nil

\* a parser that takes a track URL of any host for a Spotify URL
ParseMusicUrlAnyHost(url) ==
    IF Part(url, 3) = "track" /\ Part(url, 4) \in AlnumIds
    THEN <<"spotify", url[4]>>
    ELSE Nil

\* MusicServiceMatcher.parse_music_url: <<platform, id>>, or Nil for ValueError
ParseMusicUrl(url) ==
    IF SpotifyMatch(url) THEN <<"spotify", url[4]>>
    ELSE LET hits == {k \in 1..4 : ApplePattern(url, k) # Nil}
         IN  IF hits = {} THEN Nil
             ELSE LET first == CHOOSE k \in hits : \A j \in hits : k <= j
                  IN  <<"apple_music", Get(ApplePattern(url, first))>>

\* MusicServiceMatcher.create_target_url
CreateTargetUrl(platform, track_id) ==
    IF platform = "spotify"
    THEN <<"https", "open.spotify.com", "track", track_id>>
    ELSE <<"https", "music.apple.com", "us", "song", track_id>>

(***************************************************************************)
(* What the platforms answer.                                              *)
(***************************************************************************)
Isrc == "USUM71703861"

\* the non-empty titles and artist names of source tracks
SourceTexts == {abcde}

\* a track payload: "data" tells whether an Apple Music answer holds a track;
\* artists is the list of artist names (Apple Music: the one artistName)
SourcePayloads(platform) ==
    IF platform = "spotify"
    THEN [data : {TRUE}, name : SourceTexts \cup {Empty},
          artists : {<< >>} \cup {<<a>> : a \in SourceTexts \cup {Empty}},
          isrc : {None, Isrc}]
    ELSE [data : {FALSE}, name : {Empty}, artists : {<<Empty>>}, isrc : {None}]
         \cup [data : {TRUE}, name : SourceTexts \cup {Empty},
               artists : {<<a>> : a \in SourceTexts \cup {Empty}}, isrc : {None, Isrc}]

\* the first candidate of an ISRC search: id is None when the candidate has no
\* id field; shown tells whether it has the name and artist fields
IsrcCandidates == [id : TargetIds \cup {None}, shown : BOOLEAN]
IsrcResponses == {<< >>} \cup {<<c>> : c \in IsrcCandidates}

CandTitles == {abcde, vwxyz, Empty}
CandArtists == {<< >>} \cup {<<a>> : a \in {Abcde, abcxy, abxyz, vwxyz}}
MetaCandidates == [id : TargetIds \cup {None}, name : CandTitles, artists : CandArtists]

RECURSIVE SeqsUpTo(_, _)
SeqsUpTo(S, n) ==
    IF n = 0 THEN {<< >>}
    ELSE LET shorter == SeqsUpTo(S, n - 1)
         IN  shorter \cup {Append(q, c) : q \in {r \in shorter : Len(r) = n - 1}, c \in S}

\* the answers of a metadata search with at most n candidates
MetaResponses(n) == SeqsUpTo(MetaCandidates, n)

(***************************************************************************)
(* One operation of a platform client: whether it returned a payload, the  *)
(* Spotify token held afterwards, and the HTTP requests it sent.           *)
(***************************************************************************)
AppleRuns(held) ==
    { [ok |-> TRUE, token |-> held, http |-> <<"get_200">>],
      [ok |-> FALSE, token |-> held, http |-> <<"get_err">>] }

\* a client that refreshes and retries a second time after a second 401
SpotifyRunsRetryTwice(m, held) ==
    LET pre == IF held THEN << >> ELSE <<"post_200">>
    IN  (IF held THEN {} ELSE {[ok |-> FALSE, token |-> FALSE, http |-> <<"post_err">>]})
        \cup { [ok |-> TRUE, token |-> TRUE, http |-> pre \o <<"get_200">>],
               [ok |-> FALSE, token |-> TRUE, http |-> pre \o <<"get_err">>],
               [ok |-> FALSE, token |-> (m = "MusicServiceMatcher"),
                http |-> pre \o <<"get_401", "post_err">>] }
        \cup { [ok |-> (s = "get_200"), token |-> TRUE,
                http |-> pre \o <<"get_401", "post_200", s>>]
               : s \in {"get_200", "get_err"} }
        \cup { [ok |-> (s = "get_200"), token |-> TRUE,
                http |-> pre \o <<"get_401", "post_200", "get_401", "post_200", s>>]
               : s \in {"get_200", "get_401", "get_err"} }

SpotifyRuns(m, held) ==
    LET pre == IF held THEN << >> ELSE <<"post_200">>
    IN  (IF held THEN {} ELSE {[ok |-> FALSE, token |-> FALSE, http |-> <<"post_err">>]})
        \cup { [ok |-> TRUE, token |-> TRUE, http |-> pre \o <<"get_200">>],
               [ok |-> FALSE, token |-> TRUE, http |-> pre \o <<"get_err">>],
               [ok |-> FALSE, token |-> (m = "MusicServiceMatcher"),
                http |-> pre \o <<"get_401", "post_err">>] }
        \cup { [ok |-> (s = "get_200"), token |-> TRUE,
                http |-> pre \o <<"get_401", "post_200", s>>]
               : s \in {"get_200", "get_401", "get_err"} }

ClientRuns(m, platform, held) ==
    IF platform = "spotify" THEN SpotifyRuns(m, held) ELSE AppleRuns(held)

\* what the resolver sees of an operation: success or exception, and the token
ClientOutcomes(m, platform, held) ==
    {[ok |-> run.ok, token |-> run.token] : run \in ClientRuns(m, platform, held)}

(***************************************************************************)
(* Normalisation of the source payload (the same code in both matchers):   *)
(* kind is "ok", "nodata" (Apple Music answer without a track) or          *)
(* "IndexError" (Spotify artists list present but empty).                  *)
(***************************************************************************)
ExtractSourceAnyData(platform, payload) ==
    IF platform = "spotify" /\ payload.artists = << >>
    THEN [kind |-> "IndexError", title |-> Empty, artist |-> Empty, isrc |-> None]
    ELSE [kind |-> "ok", title |-> payload.name, artist |-> payload.artists[1],
          isrc |-> payload.isrc]

ExtractSource(platform, payload) ==
    IF platform = "spotify"
    THEN IF payload.artists = << >>
         THEN [kind |-> "IndexError", title |-> Empty, artist |-> Empty, isrc |-> None]
         ELSE [kind |-> "ok", title |-> payload.name, artist |-> payload.artists[1],
               isrc |-> payload.isrc]
    ELSE IF ~payload.data
         THEN [kind |-> "nodata", title |-> Empty, artist |-> Empty, isrc |-> None]
         ELSE [kind |-> "ok", title |-> payload.name, artist |-> payload.artists[1],
               isrc |-> payload.isrc]

(***************************************************************************)
(* The scoring loop over the metadata candidates.                          *)
(***************************************************************************)
\* 0.8
Threshold == [n |-> 4, d |-> 5]

\* total_score = (title_score + artist_score) / 2
TotalScore(m, title, artist, track_title, track_artist) ==
    FracHalf(FracAdd(Similarity(m, title, track_title),
                     Similarity(m, artist, track_artist)))

\* the comparison with >= in place of >
BetterOrEqual(total_score, best_score) == ~FracGT(best_score, total_score)

\* if total_score > best_score
Better(total_score, best_score) == FracGT(total_score, best_score)

\* the threshold with >= in place of >
AcceptedAtLeast(best) == best # Nil /\ ~FracGT(Threshold, Get(best).score)

\* best_match and best_match["score"] > 0.8
Accepted(best) == best # Nil /\ FracGT(Get(best).score, Threshold)

\* track_artist of a candidate: Nil for the IndexError of an empty Spotify list
TrackArtist(track, target_platform) ==
    IF track.artists = << >>
    THEN IF target_platform = "spotify" THEN Nil ELSE Some(Empty)
    ELSE Some(track.artists[1])

BestScore(best) == IF best = Nil THEN Zero ELSE Get(best).score

\* the body of `for track in results_data`: candidate track against the best
\* so far; exc tells that reading the candidate raised
ScoreStep(m, track, title, artist, target_platform, best) ==
    LET track_artist == TrackArtist(track, target_platform)
    IN  IF track_artist = Nil THEN [exc |-> TRUE, best_match |-> best]
        ELSE IF track.name = Empty \/ Get(track_artist) = Empty
        THEN [exc |-> FALSE, best_match |-> best]
        ELSE
        LET total_score == TotalScore(m, title, artist, track.name, Get(track_artist))
        IN  IF Better(total_score, BestScore(best))
            THEN [exc |-> FALSE,
                  best_match |-> Some([id |-> track.id, score |-> total_score])]
            ELSE [exc |-> FALSE, best_match |-> best]

\* for track in results_data, from candidate i on
RECURSIVE ScoreLoop(_, _, _, _, _, _, _)
ScoreLoop(m, results_data, i, title, artist, target_platform, best) ==
    IF i > Len(results_data) THEN [exc |-> FALSE, best_match |-> best]
    ELSE LET after == ScoreStep(m, results_data[i], title, artist, target_platform, best)
         IN  IF after.exc THEN after
             ELSE ScoreLoop(m, results_data, i + 1, title, artist, target_platform,
                            after.best_match)

\* the loop of MusicServiceMatcher._find_best_match and the one written out in
\* PlatformMatcher.match_track_id
FindBestMatch(m, results_data, title, artist, target_platform) ==
    ScoreLoop(m, results_data, 1, title, artist, target_platform, Nil)

\* what the loop can hold when it ends on an answer of at most n candidates
RECURSIVE LoopEnds(_, _, _, _, _)
LoopEnds(m, title, artist, target_platform, n) ==
    IF n = 0 THEN {[exc |-> FALSE, best_match |-> Nil]}
    ELSE LET shorter == LoopEnds(m, title, artist, target_platform, n - 1)
         IN  shorter \cup
             {ScoreStep(m, track, title, artist, target_platform, before.best_match)
                  : before \in {e \in shorter : ~e.exc}, track \in MetaCandidates}

\* what the loop leaves for some answer of the metadata search, computed once
\* per matcher, target platform and source title and artist
BestMatches ==
    [q \in Matchers \X Platforms \X (SourceTexts \cup {Empty}) \X (SourceTexts \cup {Empty}) |->
        LoopEnds(q[1], q[3], q[4], q[2], MaxCands)] @@ << >>

(***************************************************************************)
(* State.                                                                  *)
(***************************************************************************)
VARIABLES
    matcher,        \* which program runs: its one matcher object
    cache,          \* self.cache: a dict from cache key to target id or None
    spotify_token,  \* whether the Spotify client holds an access token
    pc,             \* where each resolution stands
    cache_key,      \* cache_key of the resolution; Nil before the URL is parsed
    result,         \* the MatchResult under construction, then returned
    source,         \* title, artist, isrc read from the source payload
    scoring,        \* Nil, or how the scoring loop ended: exc, best_match
    calls,          \* the client operations of the resolution, in order
    first_target,   \* history: Nil, or the target_id of the first success, per key
    first_method,   \* history: None, or the method_used of the first success, per key
    negatives,      \* history: the keys a resolution ended in no match for
    best_in,        \* SpecBest: the arguments of the scoring loop
    best_out,       \* SpecBest: Nil, or what the loop returned
    client_op,      \* SpecClient: Nil, or the last operation of a platform client
    sim,            \* SpecSim: two strings and, once computed, their similarity
    link,           \* SpecUrl: a platform and id or a URL, and what was made of them
    shared          \* SpecPair: Nil, or the key and the platform responses that the
                    \* two resolutions have in common, each once it was observed

resolver == <<cache, spotify_token, pc, cache_key, result, source, scoring, calls,
              first_target, first_method, negatives>>
scorer == <<best_in, best_out>>
probes == <<client_op, sim, link>>
units == <<probes, shared>>
vars == <<matcher, resolver, scorer, units>>

\* MatchResult(...) as both entry points construct it
MatchResult(source_url, source_platform, source_id, target_platform) ==
    [source_url |-> source_url, source_platform |-> source_platform,
     source_id |-> source_id, target_platform |-> target_platform,
     target_id |-> None, target_url |-> Nil, method_used |-> None,
     match_score |-> Nil, error |-> None, success |-> FALSE]

NoResult == MatchResult(Nil, None, None, None)
NoSource == [found |-> FALSE, title |-> Empty, artist |-> Empty, isrc |-> None]
NoScorer == [results_data |-> << >>, target_platform |-> "spotify"]

InitResolver ==
    /\ cache = << >>
    /\ spotify_token = FALSE
    /\ pc = [p \in Procs |-> "idle"]
    /\ cache_key = [p \in Procs |-> Nil]
    /\ result = [p \in Procs |-> NoResult]
    /\ source = [p \in Procs |-> NoSource]
    /\ scoring = [p \in Procs |-> Nil]
    /\ calls = [p \in Procs |-> << >>]
    /\ first_target = [k \in Keys |-> Nil]
    /\ first_method = [k \in Keys |-> None]
    /\ negatives = {}

InitUnits ==
    /\ client_op = Nil
    /\ sim = Nil
    /\ link = Nil
    /\ shared = Nil

Init ==
    /\ matcher \in Matchers
    /\ InitResolver
    /\ best_in = NoScorer
    /\ best_out = Nil
    /\ InitUnits

(***************************************************************************)
(* The cache.                                                              *)
(***************************************************************************)
\* a cache check that never finds an entry
CacheHitNever(c, key) == FALSE

\* if cache_key in self.cache: cached_id = ...; if cached_id:
CacheHit(c, key) == key \in DOMAIN c /\ c[key] # None

\* a write that empties the rest of the cache
CachePutOnly(c, key, value) == [k \in {key} |-> value]

\* self.cache[cache_key] = value
CachePut(c, key, value) ==
    [k \in DOMAIN c \cup {key} |-> IF k = key THEN value ELSE c[k]]

\* a cache hit that reports a score
CachedResultScored(m, r, cached_id) ==
    [r EXCEPT !.target_id = cached_id,
              !.method_used = "cache",
              !.match_score = Some(One),
              !.success = TRUE]

\* the result a cache hit returns
CachedResult(m, r, cached_id) ==
    [r EXCEPT !.target_id = cached_id,
              !.target_url = IF m = "MusicServiceMatcher"
                             THEN CreateTargetUrl(r.target_platform, cached_id)
                             ELSE Nil,
              !.method_used = "cache",
              !.success = TRUE]

\* a client operation as the histories keep it: resp is the payload of a
\* fetch that returned, and the list of the first candidate of an ISRC search
\* that returned
Call(op, ok, resp) == [op |-> op, ok |-> ok, resp |-> resp]

\* the client operation leaves the token as run.token; the Apple Music client
\* has no token to refresh
TokenAfter(platform, run) == IF platform = "spotify" THEN run.token ELSE spotify_token

(***************************************************************************)
(* Two resolutions that observe the same platform responses: the first to  *)
(* observe the key, or the answer of an operation, fixes it for the other. *)
(***************************************************************************)
NothingShared == [key |-> Nil, fetch |-> Nil, isrc |-> Nil, metadata |-> Nil]

Observes(what, seen) ==
    IF shared = Nil THEN TRUE ELSE shared[what] \in {Nil, Some(seen)}

Shares(what, seen) ==
    shared' = IF shared = Nil THEN Nil ELSE [shared EXCEPT ![what] = Some(seen)]

(***************************************************************************)
(* Entry points: construct the result, then the cache check.               *)
(***************************************************************************)
Enter(p, key, r) ==
    /\ Observes("key", key)
    /\ Shares("key", key)
    /\ cache_key' = [cache_key EXCEPT ![p] = key]
    /\ calls' = [calls EXCEPT ![p] = << >>]
    /\ IF CacheHit(cache, key)
       THEN /\ result' = [result EXCEPT ![p] = CachedResult(matcher, r, cache[key])]
            /\ pc' = [pc EXCEPT ![p] = "done"]
       ELSE /\ result' = [result EXCEPT ![p] = r]
            /\ pc' = [pc EXCEPT ![p] = "fetch"]
    /\ UNCHANGED <<cache, spotify_token, source, scoring, first_target, first_method, negatives>>
    /\ UNCHANGED <<matcher, scorer, probes>>

\* PlatformMatcher.match_track_id, up to the cache check
MatchTrackId(p, track_id, source_platform) ==
    /\ matcher = "PlatformMatcher"
    /\ pc[p] = "idle"
    /\ Enter(p, CacheKey(source_platform, track_id),
             MatchResult(Nil, source_platform, track_id, TargetPlatform(source_platform)))

\* MusicServiceMatcher.match_track, up to the cache check
MatchTrack(p, url) ==
    /\ matcher = "MusicServiceMatcher"
    /\ pc[p] = "idle"
    /\ LET parsed == ParseMusicUrl(url)
       IN  IF parsed = Nil
           THEN /\ result' = [result EXCEPT ![p] =
                       [MatchResult(url, None, None, None)
                            EXCEPT !.error = "Invalid or unsupported music URL"]]
                /\ pc' = [pc EXCEPT ![p] = "done"]
                /\ cache_key' = [cache_key EXCEPT ![p] = Nil]
                /\ calls' = [calls EXCEPT ![p] = << >>]
                /\ UNCHANGED <<cache, spotify_token, source, scoring, first_target, first_method,
                               negatives, matcher, scorer, units>>
           ELSE Enter(p, CacheKey(parsed[1], parsed[2]),
                      MatchResult(url, parsed[1], parsed[2], TargetPlatform(parsed[1])))

(***************************************************************************)
(* Steps of a resolution.                                                  *)
(***************************************************************************)
\* return result
Finish(p, r) ==
    /\ result' = [result EXCEPT ![p] = r]
    /\ pc' = [pc EXCEPT ![p] = "done"]

\* a handler that starts the resolution over
AbortRetry(p, error) ==
    /\ result' = [result EXCEPT ![p].error = error]
    /\ pc' = [pc EXCEPT ![p] = "fetch"]
    /\ cache' = cache

\* a handler that also caches the failure
AbortCached(p, error) ==
    /\ Finish(p, [result[p] EXCEPT !.error = error])
    /\ cache' = CachePut(cache, cache_key[p], None)

\* an exception handler, or an early return with an error: result.error is
\* set and the result returned; the cache is not written
Abort(p, error) ==
    /\ Finish(p, [result[p] EXCEPT !.error = error])
    /\ cache' = cache

\* the no-match exit without its cache write
NoMatchUncached(p) ==
    /\ Finish(p, [result[p] EXCEPT !.error = "No suitable match found"])
    /\ cache' = cache

\* result.error = "No suitable match found"; self.cache[cache_key] = None
NoMatch(p) ==
    /\ Finish(p, [result[p] EXCEPT !.error = "No suitable match found"])
    /\ cache' = CachePut(cache, cache_key[p], None)

\* the result of an accepted candidate, found by `method`
Matched(m, r, target_id, method, score) ==
    [r EXCEPT !.target_id = target_id,
              !.target_url = IF m = "MusicServiceMatcher"
                             THEN CreateTargetUrl(r.target_platform, target_id)
                             ELSE Nil,
              !.method_used = method,
              !.match_score = score,
              !.success = TRUE]

\* a success that returns the result without caching the target id
SucceedUncached(p, target_id, method, score) ==
    /\ Finish(p, Matched(matcher, result[p], target_id, method, score))
    /\ cache' = cache

\* success: the result is filled in, the target id cached, the result returned
Succeed(p, target_id, method, score) ==
    /\ Finish(p, Matched(matcher, result[p], target_id, method, score))
    /\ cache' = CachePut(cache, cache_key[p], target_id)

\* an ISRC attempt without a candidate that ends the resolution
FallBackGiveUp(p) == pc' = [pc EXCEPT ![p] = "done"]

\* an ISRC attempt that goes round again
FallBackRepeat(p) == pc' = [pc EXCEPT ![p] = "isrc"]

\* the ISRC attempt ends without a match: on to the metadata attempt
FallBack(p) == pc' = [pc EXCEPT ![p] = "metadata"]

\* the error a failed source step leaves in the result
SourceError(m, what) ==
    IF m = "MusicServiceMatcher" THEN "Failed to get source metadata" ELSE what

\* fetch the source track and read title, artist, isrc: the same statements in
\* both entry points, which differ in the error text
FetchSource(p) ==
    /\ pc[p] = "fetch"
    /\ LET platform == result[p].source_platform
       IN  \E run \in ClientOutcomes(matcher, platform, spotify_token),
              payload \in SourcePayloads(platform) :
             LET track == ExtractSource(platform, payload)
                 seen == <<run.ok, IF run.ok THEN Some(payload) ELSE Nil>>
             IN  /\ Observes("fetch", seen)
                 /\ Shares("fetch", seen)
                 /\ spotify_token' = TokenAfter(platform, run)
                 /\ calls' = [calls EXCEPT ![p] =
                                Append(@, Call("fetch", run.ok,
                                               IF run.ok THEN Some(payload) ELSE Nil))]
                 /\ IF ~run.ok
                    THEN /\ Abort(p, SourceError(matcher, "Failed to fetch metadata"))
                         /\ UNCHANGED source
                    ELSE IF track.kind = "IndexError"
                    THEN /\ Abort(p, SourceError(matcher, "list index out of range"))
                         /\ UNCHANGED source
                    ELSE IF track.kind = "nodata"
                    THEN /\ Abort(p, IF matcher = "MusicServiceMatcher"
                                     THEN "No track data found in Apple Music response"
                                     ELSE "No track data found")
                         /\ UNCHANGED source
                    ELSE /\ source' = [source EXCEPT ![p] =
                                   [found |-> TRUE, title |-> track.title,
                                    artist |-> track.artist, isrc |-> track.isrc]]
                         /\ pc' = [pc EXCEPT ![p] =
                                   IF track.isrc # None THEN "isrc" ELSE "metadata"]
                         /\ UNCHANGED <<result, cache>>
    /\ UNCHANGED <<cache_key, scoring, first_target, first_method, negatives, matcher, scorer, probes>>

\* PlatformMatcher.match_track_id: the source step
GetSourceMetadataId(p) == matcher = "PlatformMatcher" /\ FetchSource(p)

\* MusicServiceMatcher.match_track: the source step
GetSourceMetadataUrl(p) == matcher = "MusicServiceMatcher" /\ FetchSource(p)

\* PlatformMatcher.match_track_id: the ISRC attempt; an exception of the search
\* reaches the handler of the whole function
IsrcMatchId(p) ==
    /\ matcher = "PlatformMatcher"
    /\ pc[p] = "isrc"
    /\ LET platform == result[p].target_platform
       IN  \E run \in ClientOutcomes(matcher, platform, spotify_token),
              search_results \in IsrcResponses :
             /\ Observes("isrc", <<run.ok, IF run.ok THEN search_results ELSE Nil>>)
             /\ Shares("isrc", <<run.ok, IF run.ok THEN search_results ELSE Nil>>)
             /\ spotify_token' = TokenAfter(platform, run)
             /\ calls' = [calls EXCEPT ![p] =
                            Append(@, Call("isrc", run.ok,
                                           IF run.ok THEN search_results ELSE Nil))]
             /\ IF ~run.ok
                THEN Abort(p, "Failed to search by ISRC")
                ELSE IF search_results = << >>
                THEN /\ FallBack(p)
                     /\ UNCHANGED <<result, cache>>
                ELSE IF search_results[1].id = None
                THEN Abort(p, "KeyError: id")
                ELSE Succeed(p, search_results[1].id, "isrc_match", Nil)
    /\ UNCHANGED <<cache_key, source, scoring, first_target, first_method, negatives, matcher, scorer, probes>>

\* MusicServiceMatcher.match_track: the ISRC attempt, inside its own try; its
\* handler prints and falls through to the metadata attempt
IsrcMatchUrl(p) ==
    /\ matcher = "MusicServiceMatcher"
    /\ pc[p] = "isrc"
    /\ LET platform == result[p].target_platform
       IN  \E run \in ClientOutcomes(matcher, platform, spotify_token),
              search_results \in IsrcResponses :
             /\ Observes("isrc", <<run.ok, IF run.ok THEN search_results ELSE Nil>>)
             /\ Shares("isrc", <<run.ok, IF run.ok THEN search_results ELSE Nil>>)
             /\ spotify_token' = TokenAfter(platform, run)
             /\ calls' = [calls EXCEPT ![p] =
                            Append(@, Call("isrc", run.ok,
                                           IF run.ok THEN search_results ELSE Nil))]
             /\ IF ~run.ok \/ search_results = << >> \/ search_results[1].id = None
                THEN /\ FallBack(p)
                     /\ UNCHANGED <<result, cache>>
                ELSE IF ~search_results[1].shown
                THEN \* result.target_id is assigned, then the print raises KeyError
                     /\ result' = [result EXCEPT ![p].target_id = search_results[1].id]
                     /\ FallBack(p)
                     /\ UNCHANGED cache
                ELSE Succeed(p, search_results[1].id, "isrc_match", Nil)
    /\ UNCHANGED <<cache_key, source, scoring, first_target, first_method, negatives, matcher, scorer, probes>>

\* a gate that looks at the title only
HasTitle(title, artist) == title # Empty

\* if title and artist:
HasTitleAndArtist(title, artist) == title # Empty /\ artist # Empty

\* the metadata attempt of both entry points: the gate on title and artist,
\* the search, the scoring loop, the threshold, and the fall-through to no match;
\* search_error and loop_error are the error texts of the entry point
MetadataAttempt(p, search_error, loop_error) ==
    /\ pc[p] = "metadata"
    /\ LET platform == result[p].target_platform
           title == source[p].title
           artist == source[p].artist
       IN  IF ~HasTitleAndArtist(title, artist)
           THEN /\ NoMatch(p)
                /\ UNCHANGED <<spotify_token, calls, scoring, shared>>
           ELSE \E run \in ClientOutcomes(matcher, platform, spotify_token),
                   found \in BestMatches[<<matcher, platform, title, artist>>] :
                  /\ Observes("metadata", <<run.ok, IF run.ok THEN Some(found) ELSE Nil>>)
                  /\ Shares("metadata", <<run.ok, IF run.ok THEN Some(found) ELSE Nil>>)
                  /\ spotify_token' = TokenAfter(platform, run)
                  /\ calls' = [calls EXCEPT ![p] = Append(@, Call("metadata", run.ok, Nil))]
                  /\ IF ~run.ok
                     THEN /\ Abort(p, search_error)
                          /\ UNCHANGED scoring
                     ELSE /\ scoring' = [scoring EXCEPT ![p] = Some(found)]
                          /\ IF found.exc
                             THEN Abort(p, loop_error)
                             ELSE IF Accepted(found.best_match)
                             THEN Succeed(p, Get(found.best_match).id, "metadata_match",
                                          Some(Get(found.best_match).score))
                             ELSE NoMatch(p)
    /\ UNCHANGED <<cache_key, source, first_target, first_method, negatives, matcher, scorer, probes>>

\* PlatformMatcher.match_track_id: the metadata attempt; every exception reaches
\* the handler of the whole function, result.error = str(e)
MetadataMatchId(p) ==
    /\ matcher = "PlatformMatcher"
    /\ MetadataAttempt(p, "Failed to search by metadata", "list index out of range")

\* MusicServiceMatcher.match_track: the metadata attempt, inside its own try
MetadataMatchUrl(p) ==
    /\ matcher = "MusicServiceMatcher"
    /\ MetadataAttempt(p, "Metadata search failed", "Metadata search failed")

\* the caller takes the result; the histories record what it was
Return(p) ==
    /\ pc[p] = "done"
    /\ pc' = [pc EXCEPT ![p] = "idle"]
    /\ first_target' =
         IF /\ cache_key[p] # Nil
            /\ result[p].success
            /\ first_target[cache_key[p]] = Nil
         THEN [first_target EXCEPT ![cache_key[p]] = Some(result[p].target_id)]
         ELSE first_target
    /\ first_method' =
         IF /\ cache_key[p] # Nil
            /\ result[p].success
            /\ first_target[cache_key[p]] = Nil
         THEN [first_method EXCEPT ![cache_key[p]] = result[p].method_used]
         ELSE first_method
    /\ negatives' =
         IF cache_key[p] # Nil /\ result[p].error = "No suitable match found"
         THEN negatives \cup {cache_key[p]}
         ELSE negatives
    /\ cache_key' = [cache_key EXCEPT ![p] = Nil]
    /\ result' = [result EXCEPT ![p] = NoResult]
    /\ source' = [source EXCEPT ![p] = NoSource]
    /\ scoring' = [scoring EXCEPT ![p] = Nil]
    /\ calls' = [calls EXCEPT ![p] = << >>]
    /\ UNCHANGED <<cache, spotify_token, matcher, scorer, units>>

Next ==
    \E p \in {Main} :
        \/ \E track_id \in SourceIds, source_platform \in Platforms :
               MatchTrackId(p, track_id, source_platform)
        \/ \E url \in Urls : MatchTrack(p, url)
        \/ GetSourceMetadataId(p)
        \/ GetSourceMetadataUrl(p)
        \/ IsrcMatchId(p)
        \/ IsrcMatchUrl(p)
        \/ MetadataMatchId(p)
        \/ MetadataMatchUrl(p)
        \/ Return(p)

Spec == Init /\ [][Next]_vars

(***************************************************************************)
(* SpecLive: a call, once made, runs on: each statement of match_track_id  *)
(* and match_track is followed by the next, and every client operation     *)
(* returns or raises.                                                      *)
(***************************************************************************)
Progress(p) ==
    \/ GetSourceMetadataId(p)
    \/ GetSourceMetadataUrl(p)
    \/ IsrcMatchId(p)
    \/ IsrcMatchUrl(p)
    \/ MetadataMatchId(p)
    \/ MetadataMatchUrl(p)

SpecLive == Init /\ [][Next]_vars /\ \A p \in Procs : WF_vars(Progress(p))

(***************************************************************************)
(* SpecPair: two threads call the same matcher, each once, for the same    *)
(* key; their statements interleave, they share the cache and the clients, *)
(* and the platforms answer both alike.                                    *)
(***************************************************************************)
InitPair ==
    /\ matcher \in Matchers
    /\ InitResolver
    /\ best_in = NoScorer
    /\ best_out = Nil
    /\ client_op = Nil
    /\ sim = Nil
    /\ link = Nil
    /\ shared = NothingShared

\* the call of a thread that has not called yet
FirstCall(p) == result[p] = NoResult

NextPair ==
    \E p \in Procs :
        \/ \E track_id \in SourceIds, source_platform \in Platforms :
               FirstCall(p) /\ MatchTrackId(p, track_id, source_platform)
        \/ \E url \in Urls : FirstCall(p) /\ MatchTrack(p, url)
        \/ GetSourceMetadataId(p)
        \/ GetSourceMetadataUrl(p)
        \/ IsrcMatchId(p)
        \/ IsrcMatchUrl(p)
        \/ MetadataMatchId(p)
        \/ MetadataMatchUrl(p)

SpecPair == InitPair /\ [][NextPair]_vars

(***************************************************************************)
(* SpecClient: the operations of the platform clients on their own, one    *)
(* after the other on the same client, with the HTTP requests each sends.  *)
(***************************************************************************)
ClientOps == {"fetch", "isrc", "metadata"}

InitClient == Init

\* get_track_metadata, search_by_isrc, search_by_metadata of a platform
\* client (_get_track_metadata, _search_by_isrc, _search_by_metadata)
ClientOperation(op, platform) ==
    /\ \E run \in ClientRuns(matcher, platform, spotify_token) :
          /\ client_op' = Some([op |-> op, platform |-> platform,
                                held |-> spotify_token, run |-> run])
          /\ spotify_token' = TokenAfter(platform, run)
    /\ UNCHANGED <<matcher, scorer, sim, link, shared, cache, pc, cache_key, result,
                   source, scoring, calls, first_target, first_method, negatives>>

NextClient == \E op \in ClientOps, platform \in Platforms : ClientOperation(op, platform)

SpecClient == InitClient /\ [][NextClient]_vars

(***************************************************************************)
(* SpecSim: _calculate_similarity on its own, over every pair of strings   *)
(* of at most MaxLen characters, and arguments that are not strings.       *)
(***************************************************************************)
Chars == {"a", "A", "b", "U0130"}

RECURSIVE Strings(_)
Strings(n) ==
    IF n = 0 THEN {<< >>}
    ELSE LET shorter == Strings(n - 1)
         IN  shorter \cup {Append(w, c) : w \in {v \in shorter : Len(v) = n - 1}, c \in Chars}

InitSim ==
    /\ matcher = "PlatformMatcher"
    /\ InitResolver
    /\ best_in = NoScorer
    /\ best_out = Nil
    /\ client_op = Nil
    /\ link = Nil
    /\ shared = Nil
    /\ sim \in [str1 : Strings(MaxLen) \cup {NonString},
                str2 : Strings(MaxLen) \cup {NonString}, out : {Nil}]

\* self._calculate_similarity(str1, str2)
ApplyCalculateSimilarity ==
    /\ sim.out = Nil
    /\ sim' = [sim EXCEPT !.out = Some(CalculateSimilarity(sim.str1, sim.str2))]
    /\ UNCHANGED <<matcher, resolver, scorer, client_op, link, shared>>

NextSim == ApplyCalculateSimilarity

SpecSim == InitSim /\ [][NextSim]_vars

(***************************************************************************)
(* SpecUrl: create_target_url and parse_music_url on their own: a platform *)
(* and a track id are made into a URL and the URL parsed, or a given URL   *)
(* is parsed.                                                              *)
(***************************************************************************)
\* the track ids of a platform: base-62 on Spotify, digits on Apple Music
TrackIds(platform) == IF platform = "spotify" THEN AlnumIds ELSE DigitIds

Schemes == {"http", "https", "ftp"}
Hosts == {"open.spotify.com", "spotify.com", "music.apple.com", "example.com"}
Paths ==
    {<<"track", id>> : id \in AlnumIds}
    \cup {<<"playlist", id>> : id \in AlnumIds}
    \cup {<<w, kind, "slug", id>> :
             w \in Words, kind \in {"song", "album", "music-video", "artist"}, id \in DigitIds}
    \cup {<<w, "song", id>> : w \in Words, id \in DigitIds}
    \cup {<<w, "album", "slug", "900", "?i=", id>> : w \in Words, id \in DigitIds}
    \cup {<< >>}

\* the URLs handed to parse_music_url
UrlInputs == {<<scheme, host>> \o path : scheme \in Schemes, host \in Hosts, path \in Paths}

InitUrl ==
    /\ matcher = "MusicServiceMatcher"
    /\ InitResolver
    /\ best_in = NoScorer
    /\ best_out = Nil
    /\ client_op = Nil
    /\ sim = Nil
    /\ shared = Nil
    /\ link \in {[platform |-> pl, track_id |-> id, url |-> Nil, parsed |-> Nil] :
                    pl \in Platforms, id \in AlnumIds}
                \cup [platform : {None}, track_id : {None},
                      url : {Some(u) : u \in UrlInputs}, parsed : {Nil}]

\* self.create_target_url(platform, track_id)
ApplyCreateTargetUrl ==
    /\ link.url = Nil
    /\ link.track_id \in TrackIds(link.platform)
    /\ link' = [link EXCEPT !.url = Some(CreateTargetUrl(link.platform, link.track_id))]
    /\ UNCHANGED <<matcher, resolver, scorer, client_op, sim, shared>>

\* self.parse_music_url(url): parsed holds <<platform, id>>, or Nil for ValueError
ApplyParseMusicUrl ==
    /\ link.url # Nil
    /\ link.parsed = Nil
    /\ link' = [link EXCEPT !.parsed = Some(ParseMusicUrl(Get(link.url)))]
    /\ UNCHANGED <<matcher, resolver, scorer, client_op, sim, shared>>

NextUrl == ApplyCreateTargetUrl \/ ApplyParseMusicUrl

SpecUrl == InitUrl /\ [][NextUrl]_vars

(***************************************************************************)
(* SpecBest: the scoring loop on its own, over every answer of a metadata  *)
(* search within the bounds.                                               *)
(***************************************************************************)
InitBest ==
    /\ matcher \in Matchers
    /\ InitResolver
    /\ best_in \in [results_data : MetaResponses(MaxCands), target_platform : Platforms]
    /\ best_out = Nil
    /\ InitUnits

\* _find_best_match(search_results, title, artist, target_platform), and the
\* same loop in match_track_id
ApplyFindBestMatch ==
    /\ best_out = Nil
    /\ best_out' = Some(FindBestMatch(matcher, best_in.results_data, abcde, abcde,
                                      best_in.target_platform))
    /\ UNCHANGED <<matcher, resolver, best_in, units>>

NextBest == ApplyFindBestMatch

SpecBest == InitBest /\ [][NextBest]_vars

(***************************************************************************)
(* Properties.                                                             *)
(***************************************************************************)
\* the resolution of p has made the client operation op
Made(p, op) == \E i \in 1..Len(calls[p]) : calls[p][i].op = op

\* C1: once a call for a key returned success with target_id t, every later
\* call for the key returns success with target_id t and method_used "cache",
\* and makes no client operation.
C1_RepeatAfterSuccess ==
    \A p \in Procs :
        (pc[p] # "idle" /\ cache_key[p] # Nil /\ first_target[cache_key[p]] # Nil)
        => /\ pc[p] = "done"
           /\ result[p].success
           /\ result[p].target_id = Get(first_target[cache_key[p]])
           /\ result[p].method_used = "cache"
           /\ calls[p] = << >>

\* C2: once a resolution of a key ended in "No suitable match found", every
\* later call for the key returns success = false and makes no client
\* operation.
C2_RepeatAfterNoMatch ==
    \A p \in Procs :
        (pc[p] # "idle" /\ cache_key[p] # Nil /\ cache_key[p] \in negatives)
        => /\ pc[p] = "done"
           /\ ~result[p].success
           /\ calls[p] = << >>

\* C3: once the cache holds the no-match marker for a key, no step changes
\* the entry of that key to a target id.
C3_MarkerKept ==
    [][\A k \in negatives :
          (k \in DOMAIN cache /\ cache[k] = None)
          => (k \in DOMAIN cache' /\ cache'[k] = None)]_vars

\* C4: when the fetch of the source track fails, the call returns success =
\* false with error set, its only client operation is the fetch, and the cache
\* is as before the call, without an entry that would serve the key.
C4_FetchFailure ==
    [][\A p \in Procs :
          (/\ pc[p] = "fetch"
           /\ Len(calls'[p]) = 1
           /\ ~calls'[p][1].ok)
          => /\ pc'[p] = "done"
             /\ ~result'[p].success
             /\ result'[p].error # None
             /\ calls'[p] = <<Call("fetch", FALSE, Nil)>>
             /\ cache' = cache
             /\ ~CacheHit(cache', cache_key'[p])]_vars

C4_Witness ==
    \E p \in Procs :
        /\ pc[p] = "done"
        /\ calls[p] = <<Call("fetch", FALSE, Nil)>>
        /\ result[p].error # None

\* C5: when the ISRC search returned a first candidate with an id, the call
\* returns success with method_used "isrc_match" and that id, the id is
\* cached, and no metadata search is made.
C5_IsrcPrecedence ==
    \A p \in Procs : \A i \in 1..Len(calls[p]) :
        (/\ calls[p][i].op = "isrc"
         /\ calls[p][i].ok
         /\ calls[p][i].resp # << >>
         /\ calls[p][i].resp[1].id # None)
        => /\ pc[p] = "done"
           /\ result[p].success
           /\ result[p].method_used = "isrc_match"
           /\ result[p].target_id = calls[p][i].resp[1].id
           /\ CacheHit(cache, cache_key[p])
           /\ cache[cache_key[p]] = calls[p][i].resp[1].id
           /\ ~Made(p, "metadata")

\* C6: when the ISRC search raised and the source title and artist are both
\* non-empty, the resolution goes on to the metadata search, in both entry
\* points.
C6_IsrcFailureFallsBack ==
    \A p \in Procs :
        (/\ pc[p] = "done"
         /\ \E i \in 1..Len(calls[p]) : calls[p][i].op = "isrc" /\ ~calls[p][i].ok
         /\ source[p].title # Empty
         /\ source[p].artist # Empty)
        => Made(p, "metadata")

\* C7: when the metadata search raises, the call returns success = false with
\* error set and target_id absent, and the cache is not written.
C7_MetadataFailure ==
    [][\A p \in Procs :
          (/\ pc[p] = "metadata"
           /\ Len(calls'[p]) > Len(calls[p])
           /\ ~calls'[p][Len(calls'[p])].ok)
          => /\ pc'[p] = "done"
             /\ ~result'[p].success
             /\ result'[p].error # None
             /\ result'[p].target_id = None
             /\ cache' = cache]_vars

\* C8: when the scoring loop of the metadata attempt ended with a best
\* candidate, the call succeeds exactly if the best score is above 4/5, then
\* with method_used "metadata_match" and match_score the best score; a best
\* score of 4/5 or less is the no-match outcome.
C8_StrictThreshold ==
    \A p \in Procs :
        (/\ pc[p] = "done"
         /\ scoring[p] # Nil
         /\ ~Get(scoring[p]).exc
         /\ Get(scoring[p]).best_match # Nil)
        => LET best == Get(Get(scoring[p]).best_match)
           IN  IF best.score.n * 5 > 4 * best.score.d
               THEN /\ result[p].success
                    /\ result[p].method_used = "metadata_match"
                    /\ result[p].match_score = Some(best.score)
                    /\ result[p].target_id = best.id
               ELSE /\ ~result[p].success
                    /\ result[p].error = "No suitable match found"

\* a best score of exactly 0.8, rejected
C8_Witness ==
    \E p \in Procs :
        /\ pc[p] = "done"
        /\ scoring[p] # Nil
        /\ Get(scoring[p]).best_match # Nil
        /\ Get(Get(scoring[p]).best_match).score = [n |-> 4, d |-> 5]
        /\ result[p].error = "No suitable match found"

\* candidate i of the answer is scored: it has a title and an artist name
ScoredAt(i) ==
    LET track == best_in.results_data[i]
    IN  track.name # Empty /\ track.artists # << >> /\ track.artists[1] # Empty

\* the mean of the title similarity and the artist similarity of candidate i
CombinedAt(i) ==
    LET track == best_in.results_data[i]
    IN  FracHalf(FracAdd(Similarity(matcher, abcde, track.name),
                         Similarity(matcher, abcde, track.artists[1])))

\* C9: the candidate the loop selects has the greatest combined score of the
\* scored candidates and is the earliest candidate with that score; the loop
\* selects none only if no scored candidate has a positive score.
C9_BestAndFirst ==
    (best_out # Nil /\ ~Get(best_out).exc)
    => LET scored == {i \in 1..Len(best_in.results_data) : ScoredAt(i)}
           top == {k \in scored : \A j \in scored : ~FracGT(CombinedAt(j), CombinedAt(k))}
           best == Get(best_out).best_match
       IN  IF best = Nil
           THEN \A j \in scored : ~FracGT(CombinedAt(j), Zero)
           ELSE \E k \in top :
                    /\ \A j \in top : k <= j
                    /\ Get(best) = [id |-> best_in.results_data[k].id,
                                    score |-> CombinedAt(k)]

\* two candidates of different ids share the greatest score; the first is selected
C9_Witness ==
    /\ best_out # Nil
    /\ ~Get(best_out).exc
    /\ Len(best_in.results_data) = 2
    /\ ScoredAt(1) /\ ScoredAt(2)
    /\ CombinedAt(1) = CombinedAt(2)
    /\ FracGT(CombinedAt(1), Zero)
    /\ best_in.results_data[1].id # best_in.results_data[2].id
    /\ Get(best_out).best_match =
           Some([id |-> best_in.results_data[1].id, score |-> CombinedAt(1)])

\* the ISRC attempt of p was skipped or returned no candidate, and the
\* metadata attempt was skipped or ended without an accepted candidate
NothingFound(p) ==
    /\ source[p].found
    /\ \A i \in 1..Len(calls[p]) :
           calls[p][i].op = "isrc" => (calls[p][i].ok /\ calls[p][i].resp = << >>)
    /\ \/ /\ source[p].title = Empty \/ source[p].artist = Empty
          /\ ~Made(p, "metadata")
       \/ /\ scoring[p] # Nil
          /\ ~Get(scoring[p]).exc
          /\ LET best == Get(scoring[p]).best_match
             IN  best = Nil \/ Get(best).score.n * 5 <= 4 * Get(best).score.d

\* C10: when neither attempt found a candidate to accept, the call returns
\* success = false with error "No suitable match found" and the cache holds
\* the no-match marker for the key.
C10_NoMatchOutcome ==
    \A p \in Procs :
        (pc[p] = "done" /\ NothingFound(p))
        => /\ ~result[p].success
           /\ result[p].error = "No suitable match found"
           /\ cache_key[p] \in DOMAIN cache
           /\ cache[cache_key[p]] = None

\* the metadata attempt scored candidates and accepted none
C10_Witness ==
    \E p \in Procs :
        /\ pc[p] = "done"
        /\ NothingFound(p)
        /\ Made(p, "isrc")
        /\ scoring[p] # Nil
        /\ Get(scoring[p]).best_match # Nil
        /\ result[p].error = "No suitable match found"
        /\ cache[cache_key[p]] = None

\* C11: in every returned result, success holds exactly if target_id is
\* present and error is absent.
C11_SuccessIffTarget ==
    \A p \in Procs :
        pc[p] = "done"
        => (result[p].success
            <=> (result[p].target_id # None /\ result[p].error = None))

\* the error texts that contain "No track data found"
NoTrackData == {"No track data found", "No track data found in Apple Music response"}

\* C12: when the Apple Music source answers without a track (empty or absent
\* data), the call returns success = false with an error containing "No track
\* data found", makes no search and does not write the cache.
C12_NoTrackData ==
    [][\A p \in Procs :
          (/\ pc[p] = "fetch"
           /\ result[p].source_platform = "apple_music"
           /\ Len(calls'[p]) = 1
           /\ calls'[p][1].ok
           /\ ~Get(calls'[p][1].resp).data)
          => /\ pc'[p] = "done"
             /\ ~result'[p].success
             /\ result'[p].error \in NoTrackData
             /\ cache' = cache]_vars

C12_Witness ==
    \E p \in Procs :
        /\ pc[p] = "done"
        /\ result[p].source_platform = "apple_music"
        /\ Len(calls[p]) = 1
        /\ calls[p][1].ok
        /\ ~Get(calls[p][1].resp).data
        /\ result[p].error \in NoTrackData

\* C13: every call returns a result: a resolution under way reaches its
\* return, whatever the fetch and the searches do; an unparseable URL returns
\* at once; and no step starts the resolution over or takes back a result.
C13_ReturnsOnce ==
    /\ \A p \in Procs : (pc[p] \in {"fetch", "isrc", "metadata"}) ~> (pc[p] = "done")
    /\ [][\A p \in Procs :
             /\ pc[p] = "idle" => pc'[p] \in {"idle", "fetch", "done"}
             /\ pc[p] = "fetch" => pc'[p] \in {"fetch", "isrc", "metadata", "done"}
             /\ pc[p] = "isrc" => pc'[p] \in {"isrc", "metadata", "done"}
             /\ pc[p] = "metadata" => pc'[p] \in {"metadata", "done"}
             /\ pc[p] = "done" => (pc'[p] = "idle" \/ (pc'[p] = "done" /\ result'[p] = result[p]))
             /\ (pc[p] \in {"fetch", "isrc", "metadata"} /\ pc'[p] = pc[p])
                    => calls'[p] = calls[p]]_vars

\* a resolution returned after the fetch and both searches, the last one failing
C13_Witness ==
    \E p \in Procs :
        /\ pc[p] = "done"
        /\ Len(calls[p]) = 3
        /\ ~calls[p][2].ok
        /\ ~calls[p][3].ok

\* the client operations of the resolution of p, in order
Ops(p) == [i \in 1..Len(calls[p]) |-> calls[p][i].op]

\* C14: the client operations of a resolution are the fetch, then the ISRC
\* search, then the metadata search, each at most once, and a search is made
\* only after the fetch returned.
C14_CallOrder ==
    \A p \in Procs :
        /\ Ops(p) \in {<< >>, <<"fetch">>, <<"fetch", "isrc">>, <<"fetch", "metadata">>,
                       <<"fetch", "isrc", "metadata">>}
        /\ Len(calls[p]) >= 2 => calls[p][1].ok

\* all three operations were made
C14_Witness ==
    \E p \in Procs : pc[p] = "done" /\ Ops(p) = <<"fetch", "isrc", "metadata">>

\* the positions of the API requests (GET) in the trace h of an operation
Gets(h) == {i \in 1..Len(h) : h[i] \in {"get_200", "get_401", "get_err"}}

\* the positions of the token requests (POST) of h after position k
PostsAfter(h, k) == {i \in 1..Len(h) : i > k /\ h[i] \in {"post_200", "post_err"}}

\* C15: a Spotify operation whose first API request is answered 401 refreshes
\* the token once; a refresh that succeeds is followed by one retry, whose
\* answer is the outcome of the operation (an error if it fails again); a
\* refresh that fails ends the operation with an error.  Without a 401 there is
\* no refresh and no retry.  So an operation sends at most two API requests
\* and at most one token request after a 401.
C15_RefreshAndRetryOnce ==
    (client_op # Nil /\ Get(client_op).platform = "spotify")
    => LET run == Get(client_op).run
           h == run.http
           gets == Gets(h)
       IN  /\ Cardinality(gets) <= 2
           /\ gets = {} => (~run.ok /\ h = <<"post_err">>)
           /\ gets # {} =>
                LET first == CHOOSE i \in gets : \A j \in gets : i <= j
                IN  /\ first = (IF Get(client_op).held THEN 1 ELSE 2)
                    /\ IF h[first] = "get_401"
                       THEN /\ Cardinality(PostsAfter(h, first)) = 1
                            /\ h[first + 1] \in {"post_200", "post_err"}
                            /\ IF h[first + 1] = "post_200"
                               THEN /\ Len(h) = first + 2
                                    /\ first + 2 \in gets
                                    /\ run.ok <=> h[first + 2] = "get_200"
                               ELSE Len(h) = first + 1 /\ ~run.ok
                       ELSE /\ Len(h) = first
                            /\ run.ok <=> h[first] = "get_200"

\* the retry after the refresh is answered 401 again: the operation fails
C15_Witness ==
    /\ client_op # Nil
    /\ Get(client_op).platform = "spotify"
    /\ Get(client_op).run.http = <<"get_401", "post_200", "get_401">>
    /\ ~Get(client_op).run.ok

\* C16: when the ISRC search returns without a candidate, the step records no
\* error, changes neither the result nor the cache and goes on to the metadata
\* attempt; the call then ends as the metadata attempt ends: a metadata
\* match, or no match when the attempt is skipped or accepts no candidate.
C16_ZeroCandidates ==
    /\ [][\A p \in Procs :
             (/\ pc[p] = "isrc"
              /\ Len(calls'[p]) = Len(calls[p]) + 1
              /\ calls'[p][Len(calls'[p])].ok
              /\ calls'[p][Len(calls'[p])].resp = << >>)
             => /\ pc'[p] = "metadata"
                /\ result'[p] = result[p]
                /\ result'[p].error = None
                /\ cache' = cache]_vars
    /\ [](\A p \in Procs :
             (/\ pc[p] = "done"
              /\ \E i \in 1..Len(calls[p]) :
                     calls[p][i].op = "isrc" /\ calls[p][i].ok /\ calls[p][i].resp = << >>)
             => /\ result[p].method_used \in {"metadata_match", None}
                /\ result[p].success
                       => (scoring[p] # Nil /\ Accepted(Get(scoring[p]).best_match))
                /\ (~Made(p, "metadata")
                        \/ (scoring[p] # Nil /\ ~Get(scoring[p]).exc
                                /\ ~Accepted(Get(scoring[p]).best_match)))
                       => result[p].error = "No suitable match found")

\* after an ISRC search without candidates the metadata search found the match
C16_Witness ==
    \E p \in Procs :
        /\ pc[p] = "done"
        /\ Len(calls[p]) = 3
        /\ calls[p][2].ok
        /\ calls[p][2].resp = << >>
        /\ result[p].method_used = "metadata_match"

\* C17: an ISRC search is made only for a source with an ISRC, a metadata
\* search only for a source with a title and an artist; a metadata attempt
\* skipped for want of either ends the call with "No suitable match found"
\* and the no-match marker cached, without a further client operation.
C17_Gates ==
    /\ [](\A p \in Procs :
             /\ Made(p, "isrc") => (source[p].found /\ source[p].isrc # None)
             /\ Made(p, "metadata")
                    => (source[p].found /\ source[p].title # Empty
                            /\ source[p].artist # Empty))
    /\ [][\A p \in Procs :
             (/\ pc[p] = "metadata"
              /\ pc'[p] # "metadata"
              /\ source[p].title = Empty \/ source[p].artist = Empty)
             => /\ pc'[p] = "done"
                /\ calls'[p] = calls[p]
                /\ ~result'[p].success
                /\ result'[p].error = "No suitable match found"
                /\ cache_key[p] \in DOMAIN cache'
                /\ cache'[cache_key[p]] = None]_vars

\* a source without an artist: after the ISRC search the metadata attempt is
\* skipped
C17_Witness ==
    \E p \in Procs :
        /\ pc[p] = "done"
        /\ source[p].found
        /\ source[p].artist = Empty
        /\ Ops(p) = <<"fetch", "isrc">>
        /\ result[p].error = "No suitable match found"

\* C18: a source payload without ISRC or without artist (an artists list
\* that is empty included) is read as a source with no ISRC or an empty
\* artist, and a metadata candidate without artist does not make the scoring
\* loop raise.
C18_MissingFieldsTolerated ==
    \A p \in Procs :
        /\ (/\ Len(calls[p]) >= 1
            /\ calls[p][1].ok
            /\ Get(calls[p][1].resp).data)
           => LET payload == Get(calls[p][1].resp)
              IN  /\ source[p].found
                  /\ source[p].isrc = payload.isrc
                  /\ source[p].artist =
                         (IF payload.artists = << >> THEN Empty ELSE payload.artists[1])
        /\ scoring[p] # Nil => ~Get(scoring[p]).exc

\* a and b have the same length and differ at most in the case of letters
SameButCase(a, b) ==
    /\ Len(a) = Len(b)
    /\ \A i \in 1..Len(a) :
           \/ a[i] = b[i]
           \/ {a[i], b[i]} \in {{"a", "A"}, {"b", "B"}}

\* C19: for non-empty strings a and b the similarity of a and b is that of b
\* and a, the similarity of a string and itself is 1, and strings that differ
\* only in letter case have similarity 1.
C19_SymmetryAndIdentity ==
    (/\ sim # Nil
     /\ sim.out # Nil
     /\ sim.str1 \notin {Empty, NonString}
     /\ sim.str2 \notin {Empty, NonString})
    => /\ Get(sim.out) = CalculateSimilarity(sim.str2, sim.str1)
       /\ sim.str1 = sim.str2 => Get(sim.out) = [n |-> 1, d |-> 1]
       /\ SameButCase(sim.str1, sim.str2) => Get(sim.out) = [n |-> 1, d |-> 1]

\* two different strings that differ only in case
C19_Witness ==
    /\ sim # Nil
    /\ sim.out # Nil
    /\ sim.str1 # sim.str2
    /\ Len(sim.str1) = 2
    /\ sim.str1 # NonString
    /\ sim.str2 # NonString
    /\ SameButCase(sim.str1, sim.str2)
    /\ Get(sim.out) = [n |-> 1, d |-> 1]

\* the value v is 1 - distance / longest, and lies in [0, 1]
IsSimilarity(v, distance, longest) ==
    /\ v.d > 0
    /\ v.n * longest = v.d * (longest - distance)
    /\ 0 <= v.n
    /\ v.n <= v.d

\* C20, as stated: the similarity of a and b is 0 when both are empty or an
\* argument makes the computation fail, and otherwise lies in [0, 1] and is
\* 1 - levenshtein(lower(a), lower(b)) / max(len(a), len(b)).
C20_SimilarityByLength ==
    (sim # Nil /\ sim.out # Nil)
    => LET a == sim.str1
           b == sim.str2
       IN  IF a = NonString \/ b = NonString \/ (a = Empty /\ b = Empty)
           THEN Get(sim.out) = [n |-> 0, d |-> 1]
           ELSE IsSimilarity(Get(sim.out), Levenshtein(Lower(a), Lower(b)),
                             Max(Len(a), Len(b)))

\* C20, amended: the same with the lengths of lower(a) and lower(b) in place
\* of those of a and b.
C20_SimilarityByLoweredLength ==
    (sim # Nil /\ sim.out # Nil)
    => LET a == sim.str1
           b == sim.str2
       IN  IF a = NonString \/ b = NonString \/ (a = Empty /\ b = Empty)
           THEN Get(sim.out) = [n |-> 0, d |-> 1]
           ELSE IsSimilarity(Get(sim.out), Levenshtein(Lower(a), Lower(b)),
                             Max(Len(Lower(a)), Len(Lower(b))))

\* a string that lower() makes longer, with a similarity strictly between 0 and 1
C20_Witness ==
    /\ sim # Nil
    /\ sim.out # Nil
    /\ sim.str1 # NonString
    /\ sim.str2 # NonString
    /\ Len(Lower(sim.str1)) > Len(sim.str1)
    /\ Get(sim.out).n > 0
    /\ Get(sim.out).n < Get(sim.out).d

\* C22: for a platform p and a valid track id of p, parsing the URL that
\* create_target_url makes of them returns p and the id; for Apple Music this
\* is the URL of the form /song/{id}.
C22_UrlRoundTrip ==
    (/\ link # Nil
     /\ link.platform # None
     /\ link.parsed # Nil)
    => Get(link.parsed) = <<link.platform, link.track_id>>

\* the URL has one of the shapes of a Spotify track URL or of an Apple Music
\* album, song or music-video URL
Recognised(url) ==
    /\ Len(url) >= 4
    /\ url[1] \in {"http", "https"}
    /\ \/ /\ url[2] \in {"open.spotify.com", "spotify.com"}
          /\ url[3] = "track"
       \/ /\ url[2] = "music.apple.com"
          /\ url[4] \in {"album", "song", "music-video"}
          /\ Len(url) >= 6
          /\ url[6] \in DigitIds

\* C23: match_track on a URL of none of the recognised shapes returns at once
\* a result with success false and the invalid-URL error of parse_music_url,
\* having made no client call and leaving the cache as it was.
C23_UnrecognisedUrl ==
    [][\A p \in Procs :
          (/\ matcher = "MusicServiceMatcher"
           /\ pc[p] = "idle"
           /\ pc'[p] # "idle"
           /\ ~Recognised(result'[p].source_url))
          => /\ pc'[p] = "done"
             /\ ~result'[p].success
             /\ result'[p].error = "Invalid or unsupported music URL"
             /\ calls'[p] = << >>
             /\ cache' = cache
             /\ spotify_token' = spotify_token]_vars

\* match_track has returned the invalid-URL error for the URL of another site,
\* with entries in the cache
C23_Witness ==
    \E p \in Procs :
        /\ pc[p] = "done"
        /\ result[p].source_url = <<"https", "example.com", "track", "101">>
        /\ result[p].error = "Invalid or unsupported music URL"
        /\ cache # << >>

\* the answer of the resolution of p: whether it succeeded, the target and
\* the error
Answer(p) ==
    <<result[p].success, result[p].target_id, result[p].target_url, result[p].error>>

\* what the resolution of p, as its result tells, wrote to the cache: Nil when
\* it wrote nothing
Wrote(p) ==
    IF result[p].success /\ result[p].method_used # "cache"
    THEN Some(result[p].target_id)
    ELSE IF result[p].error = "No suitable match found"
    THEN Some(None)
    ELSE Nil

\* C21: two interleaved resolutions of the same key that observe the same
\* platform responses return the same answer, and the cache entry of the key
\* is what each of them that wrote has written on its own: the entry a
\* resolution running alone leaves, and no entry when neither wrote.
C21_LastWriteWins ==
    \A p \in Procs, q \in Procs :
        (/\ pc[p] = "done"
         /\ pc[q] = "done"
         /\ cache_key[p] # Nil
         /\ cache_key[q] = cache_key[p])
        => /\ Answer(p) = Answer(q)
           /\ Wrote(p) # Nil
              => /\ cache_key[p] \in DOMAIN cache
                 /\ cache[cache_key[p]] = Get(Wrote(p))
           /\ (p # q /\ Wrote(p) = Nil /\ Wrote(q) = Nil)
              => cache_key[p] \notin DOMAIN cache

\* both resolutions missed the cache, both found the target by metadata match
\* and both wrote it
C21_Witness ==
    /\ pc[Main] = "done"
    /\ pc[Other] = "done"
    /\ cache_key[Main] # Nil
    /\ cache_key[Main] = cache_key[Other]
    /\ result[Main].method_used = "metadata_match"
    /\ result[Other].method_used = "metadata_match"
    /\ result[Main].target_id # None
    /\ cache[cache_key[Main]] = result[Main].target_id

\* C24: a cache entry that holds a target id is never changed or removed by
\* the calls that follow, whatever the platforms answer them.
C24_PositiveEntryKept ==
    [][\A k \in DOMAIN cache :
          cache[k] # None => (k \in DOMAIN cache' /\ cache'[k] = cache[k])]_vars

\* a later call for a key whose entry holds a target id has returned, with the
\* entry as the first success left it
C24_Witness ==
    \E p \in Procs :
        /\ pc[p] = "done"
        /\ cache_key[p] # Nil
        /\ first_target[cache_key[p]] # Nil
        /\ cache_key[p] \in DOMAIN cache
        /\ cache[cache_key[p]] # None
        /\ cache[cache_key[p]] = Get(first_target[cache_key[p]])

\* C25: the cache changes only in the step that ends a resolution which was
\* not served from the cache, and then in the one entry of the key of that
\* resolution; a call that returns at its cache check writes nothing.
C25_CacheFrame ==
    [][/\ cache' # cache
          => \E p \in Procs :
                /\ pc[p] \in {"isrc", "metadata"}
                /\ pc'[p] = "done"
                /\ cache_key[p] # Nil
                /\ DOMAIN cache' = DOMAIN cache \cup {cache_key[p]}
                /\ \A k \in DOMAIN cache : k # cache_key[p] => cache'[k] = cache[k]
       /\ \A p \in Procs : (pc[p] = "idle" /\ pc'[p] = "done") => cache' = cache]_vars

\* a resolution has written its entry next to the entry of another key
C25_Witness ==
    \E p \in Procs :
        /\ pc[p] = "done"
        /\ result[p].method_used \in {"isrc_match", "metadata_match"}
        /\ Cardinality(DOMAIN cache) = 2
        /\ cache[cache_key[p]] = result[p].target_id
        /\ \E k \in DOMAIN cache : k # cache_key[p] /\ cache[k] # None

\* C26: a returned result has method_used set, to cache, isrc_match or
\* metadata_match, exactly when success is true; it has a match_score only
\* with method_used = metadata_match, and the score is above 0.8; a cache hit
\* for a key first resolved by metadata match reports cache and no score.
C26_MethodAndScore ==
    \A p \in Procs :
        pc[p] = "done"
        => /\ result[p].method_used \in {None, "cache", "isrc_match", "metadata_match"}
           /\ result[p].method_used # None <=> result[p].success
           /\ result[p].match_score # Nil
              => /\ result[p].method_used = "metadata_match"
                 /\ FracGT(Get(result[p].match_score), Threshold)
           /\ (/\ cache_key[p] # Nil
               /\ CacheHit(cache, cache_key[p])
               /\ first_method[cache_key[p]] = "metadata_match"
               /\ calls[p] = << >>)
              => /\ result[p].method_used = "cache"
                 /\ result[p].match_score = Nil

\* a cache hit for a key that a metadata match resolved first
C26_Witness ==
    \E p \in Procs :
        /\ pc[p] = "done"
        /\ cache_key[p] # Nil
        /\ first_method[cache_key[p]] = "metadata_match"
        /\ result[p].method_used = "cache"
        /\ result[p].match_score = Nil

\* C27: a result of match_track with success false has neither a target_id
\* nor a target_url.
C27_FailureCarriesNoTarget ==
    \A p \in Procs :
        (/\ matcher = "MusicServiceMatcher"
         /\ pc[p] = "done"
         /\ ~result[p].success)
        => /\ result[p].target_id = None
           /\ result[p].target_url = Nil

=============================================================================
